---- MODULE Spec2Model ----
(***************************************************************************)
(* WP Amelia API proxy (src/api/amelia-proxy.js).                          *)
(*                                                                         *)
(* The file holds two request handlers: the REST transport (lines 8-100,   *)
(* with the helpers cleanBaseUrl and buildAmeliaUrl) and the ajax          *)
(* transport (lines 147-265).  Both are modelled; `transport` says which   *)
(* one is deployed.                                                        *)
(*                                                                         *)
(* JavaScript strings are sequences of one-character strings.  An optional *)
(* value (a field that may be undefined) is a sequence of length 0 or 1.   *)
(***************************************************************************)
EXTENDS Integers, Sequences, FiniteSets, TLC

VARIABLES
  transport,   \* "rest" or "ajax": the handler that is deployed
  pc,          \* where the handler is: "idle", "awaitFetch", "awaitText",
               \* "awaitJson", "done"
  req,         \* the inbound request, once it has arrived (optional)
  fetches,     \* the outbound requests issued, in order
  upstream,    \* the upstream response [status, text], once fetch resolved
  caught,      \* the error the catch block received (optional)
  responses,   \* the responses sent to the caller, in order
  norm         \* base URL normalization applied on its own (NormSpec)

vars == <<transport, pc, req, fetches, upstream, caught, responses, norm>>

None == << >>
Some(x) == <<x>>
IsSome(o) == Len(o) = 1
Get(o) == o[1]

Min(a, b) == IF a < b THEN a ELSE b

(***************************************************************************)
(* String primitives of the JavaScript runtime, as the handlers use them.  *)
(***************************************************************************)

\* Characters String.prototype.trim removes (those that occur in the inputs).
WhiteSpace == {" ", "\t", "\n", "\r"}

UpperLetters == <<"A","B","C","D","E","F","G","H","I","J","K","L","M",
                  "N","O","P","Q","R","S","T","U","V","W","X","Y","Z">>
LowerLetters == <<"a","b","c","d","e","f","g","h","i","j","k","l","m",
                  "n","o","p","q","r","s","t","u","v","w","x","y","z">>
Digits == {"0","1","2","3","4","5","6","7","8","9"}

\* s.trim()
Trim(s) ==
  IF \A i \in 1..Len(s) : s[i] \in WhiteSpace THEN << >>
  ELSE LET first == CHOOSE i \in 1..Len(s) :
                      s[i] \notin WhiteSpace /\ \A j \in 1..(i-1) : s[j] \in WhiteSpace
           last  == CHOOSE i \in 1..Len(s) :
                      s[i] \notin WhiteSpace /\ \A j \in (i+1)..Len(s) : s[j] \in WhiteSpace
       IN SubSeq(s, first, last)

\* s.replace(/\/+$/, '')
StripTrailingSlashes(s) ==
  IF \A i \in 1..Len(s) : s[i] = "/" THEN << >>
  ELSE LET last == CHOOSE i \in 1..Len(s) :
                      s[i] # "/" /\ \A j \in (i+1)..Len(s) : s[j] = "/"
       IN SubSeq(s, 1, last)

\* s.replace(/^\//, '')
StripLeadingSlash(s) ==
  IF Len(s) > 0 /\ s[1] = "/" THEN SubSeq(s, 2, Len(s)) ELSE s

\* s.startsWith(p)
StartsWith(s, p) == Len(s) >= Len(p) /\ SubSeq(s, 1, Len(p)) = p

\* s.includes(p)
Includes(s, p) ==
  \E i \in 1..(Len(s) - Len(p) + 1) : SubSeq(s, i, i + Len(p) - 1) = p

\* s.substring(0, n)
Substring0(s, n) == SubSeq(s, 1, Min(n, Len(s)))

LowerChar(c) ==
  IF \E i \in 1..26 : UpperLetters[i] = c
  THEN LowerLetters[CHOOSE i \in 1..26 : UpperLetters[i] = c]
  ELSE c

\* s.toLowerCase()
ToLowerCase(s) == [i \in 1..Len(s) |-> LowerChar(s[i])]

\* A string of n copies of c.
Repeat(c, n) == [i \in 1..n |-> c]

S_http == <<"h","t","t","p",":","/","/">>
S_https == <<"h","t","t","p","s",":","/","/">>

\* s.match(/^https?:\/\//)
HasScheme(s) == StartsWith(s, S_http) \/ StartsWith(s, S_https)

S_pluginPath == <<"/","w","p","-","j","s","o","n","/","a","m","e","l","i","a">>

(***************************************************************************)
(* new URL(s), for a string that starts with http:// or https:// (every    *)
(* call site guarantees it).  The WHATWG parser strips leading and         *)
(* trailing spaces and control characters, drops tabs and newlines, skips  *)
(* every slash after "scheme:", reads the authority up to the next "/",    *)
(* "?" or "#", and fails on an empty host, a forbidden host character or   *)
(* a port that is not a number.  Inputs have no "@", "\", "[" or "%", no   *)
(* host ending in a numeric label and no port above 65535.                 *)
(***************************************************************************)
ForbiddenHostChars == {" ", "<", ">", "^", "|"}

IsTabOrNewline(c) == c \in {"\t", "\n", "\r"}
NotTabOrNewline(c) == ~IsTabOrNewline(c)

\* The index of the first character at or after i that is not in `skip`.
SkipChars(s, i, skip) ==
  IF \A j \in i..Len(s) : s[j] \in skip THEN Len(s) + 1
  ELSE CHOOSE j \in i..Len(s) : s[j] \notin skip /\ \A k \in i..(j-1) : s[k] \in skip

\* The index of the first character at or after i that is in `stop`.
FindChar(s, i, stop) ==
  IF \A j \in i..Len(s) : s[j] \notin stop THEN Len(s) + 1
  ELSE CHOOSE j \in i..Len(s) : s[j] \in stop /\ \A k \in i..(j-1) : s[k] \notin stop

IsValidURL(s) ==
  LET t == SelectSeq(Trim(s), NotTabOrNewline)
      afterScheme == IF StartsWith(t, S_https) THEN 7 ELSE 6
      hostStart == SkipChars(t, afterScheme, {"/"})
      authEnd == FindChar(t, hostStart, {"/", "?", "#"})
      hostEnd == FindChar(t, hostStart, {"/", "?", "#", ":"})
  IN /\ HasScheme(t)
     /\ hostEnd > hostStart
     /\ \A i \in hostStart..(hostEnd - 1) : t[i] \notin ForbiddenHostChars
     /\ \A i \in (hostEnd + 1)..(authEnd - 1) : t[i] \in Digits

\* clean.match(/(https?:\/\/[^\/]+)/): the leftmost scheme followed by at
\* least one non-slash character, extended to the next slash.
SchemeLenAt(s, i) ==
  IF SubSeq(s, i, Min(Len(s), i + 7)) = S_https THEN 8
  ELSE IF SubSeq(s, i, Min(Len(s), i + 6)) = S_http THEN 7
  ELSE 0

OriginStartsAt(s, i) ==
  /\ SchemeLenAt(s, i) > 0
  /\ i + SchemeLenAt(s, i) <= Len(s)
  /\ s[i + SchemeLenAt(s, i)] # "/"

OriginMatch(s) ==
  IF \E i \in 1..Len(s) : OriginStartsAt(s, i)
  THEN LET b == CHOOSE i \in 1..Len(s) :
                  OriginStartsAt(s, i) /\ \A k \in 1..(i-1) : ~OriginStartsAt(s, k)
           e == FindChar(s, b + SchemeLenAt(s, b), {"/"})
       IN Some(SubSeq(s, b, e - 1))
  ELSE None

\* Lines 108-113 and 176-179: trim, strip trailing slashes, add https://.
AddScheme(url) ==
  LET clean == StripTrailingSlashes(Trim(url))
  IN IF HasScheme(clean) THEN clean ELSE S_https \o clean

\* cleanBaseUrl (REST transport): None is the null it returns.
cleanBaseUrl(url) ==
  LET clean == AddScheme(url)
  IN IF ~IsValidURL(clean) THEN None
     ELSE IF Includes(clean, S_pluginPath) /\ IsSome(OriginMatch(clean))
          THEN OriginMatch(clean)
          ELSE Some(clean)

\* The ajax transport's inline "Clean base URL": no validation.
ajaxCleanUrl(baseUrl) == AddScheme(baseUrl)

(***************************************************************************)
(* JSON values, JSON.parse and JSON.stringify.  A value is a record        *)
(* [t, n, s, items]: t is the type, n a number's value, s a string's (or   *)
(* an object member's key) characters, items an array's elements or an     *)
(* object's members (each a "member" holding its value in items).  The     *)
(* grammar covers literals, integers, strings without escapes, arrays and  *)
(* objects; inputs have no fractions, exponents or backslashes.            *)
(***************************************************************************)
JVal(t, n, s, items) == [t |-> t, n |-> n, s |-> s, items |-> items]
JNull == JVal("null", 0, << >>, << >>)
JBool(b) == JVal(IF b THEN "true" ELSE "false", 0, << >>, << >>)
JNum(n) == JVal("number", n, << >>, << >>)
JStr(s) == JVal("string", 0, s, << >>)
JArr(items) == JVal("array", 0, << >>, items)
JMember(k, v) == JVal("member", 0, k, <<v>>)
JObj(members) == JVal("object", 0, << >>, members)

ParseFail == [ok |-> FALSE, v |-> JNull, next |-> 0]
ParseOk(v, next) == [ok |-> TRUE, v |-> v, next |-> next]

S_true == <<"t","r","u","e">>
S_false == <<"f","a","l","s","e">>
S_null == <<"n","u","l","l">>

DigitValue(c) == CHOOSE d \in 0..9 : <<"0","1","2","3","4","5","6","7","8","9">>[d + 1] = c

RECURSIVE DigitsValue(_)
DigitsValue(ds) ==
  IF Len(ds) = 0 THEN 0
  ELSE 10 * DigitsValue(SubSeq(ds, 1, Len(ds) - 1)) + DigitValue(ds[Len(ds)])

At(s, i) == IF i >= 1 /\ i <= Len(s) THEN s[i] ELSE "EOF"

ParseLiteral(s, i, word, v) ==
  IF SubSeq(s, i, Min(Len(s), i + Len(word) - 1)) = word
  THEN ParseOk(v, i + Len(word)) ELSE ParseFail

\* F applied to the value of x, computed once.
Bind(x, F(_)) == CHOOSE v \in {F(y) : y \in {x}} : TRUE

\* "-"? ( "0" | [1-9][0-9]* ), the digits starting at d.
ParseDigits(s, d, sign) ==
  Bind(IF At(s, d) = "0" THEN d + 1 ELSE SkipChars(s, d, Digits), LAMBDA e :
    IF e = d THEN ParseFail
    ELSE ParseOk(JNum(sign * DigitsValue(SubSeq(s, d, e - 1))), e))

ParseNumber(s, i) ==
  IF At(s, i) = "-" THEN ParseDigits(s, i + 1, -1) ELSE ParseDigits(s, i, 1)

\* A string token starting at the quote at i; the result's v is a JStr.
ParseString(s, i) ==
  Bind(FindChar(s, i + 1, {"\""}), LAMBDA close :
    IF At(s, i) # "\"" \/ close > Len(s) THEN ParseFail
    ELSE IF \E k \in (i+1)..(close-1) : IsTabOrNewline(s[k]) THEN ParseFail
    ELSE ParseOk(JStr(SubSeq(s, i + 1, close - 1)), close + 1))

RECURSIVE ParseValue(_, _), ParseElements(_, _, _), ParseMembers(_, _, _)

\* After an element r of an array: "]" ends it, "," continues it.
AfterElement(s, r, acc) ==
  Bind(SkipChars(s, r.next, WhiteSpace), LAMBDA j :
    IF At(s, j) = "]" THEN ParseOk(JArr(Append(acc, r.v)), j + 1)
    ELSE IF At(s, j) = "," THEN ParseElements(s, j + 1, Append(acc, r.v))
    ELSE ParseFail)

\* The elements of an array from i (after "[" or ","), up to the "]".
ParseElements(s, i, acc) ==
  Bind(ParseValue(s, i), LAMBDA r :
    IF ~r.ok THEN ParseFail ELSE AfterElement(s, r, acc))

\* After the value r of the member named k: "}" ends the object, ","
\* continues it.
AfterMember(s, k, r, acc) ==
  Bind(SkipChars(s, r.next, WhiteSpace), LAMBDA j :
    IF At(s, j) = "}" THEN ParseOk(JObj(Append(acc, JMember(k.v.s, r.v))), j + 1)
    ELSE IF At(s, j) = "," THEN ParseMembers(s, j + 1, Append(acc, JMember(k.v.s, r.v)))
    ELSE ParseFail)

\* After the key k of a member: ":" and the member's value.
AfterKey(s, k, acc) ==
  Bind(SkipChars(s, k.next, WhiteSpace), LAMBDA c :
    IF At(s, c) # ":" THEN ParseFail
    ELSE Bind(ParseValue(s, c + 1), LAMBDA r :
           IF ~r.ok THEN ParseFail ELSE AfterMember(s, k, r, acc)))

\* The members of an object from i (after "{" or ","), up to the "}".
ParseMembers(s, i, acc) ==
  Bind(ParseString(s, SkipChars(s, i, WhiteSpace)), LAMBDA k :
    IF ~k.ok THEN ParseFail ELSE AfterKey(s, k, acc))

\* The value starting at i, which is not white space; j is the first
\* character after i that is not white space.
ParseValueAt(s, i, j) ==
  IF At(s, i) = "{" THEN
    IF At(s, j) = "}" THEN ParseOk(JObj(<< >>), j + 1) ELSE ParseMembers(s, i + 1, << >>)
  ELSE IF At(s, i) = "[" THEN
    IF At(s, j) = "]" THEN ParseOk(JArr(<< >>), j + 1) ELSE ParseElements(s, i + 1, << >>)
  ELSE IF At(s, i) = "\"" THEN ParseString(s, i)
  ELSE IF At(s, i) = "t" THEN ParseLiteral(s, i, S_true, JBool(TRUE))
  ELSE IF At(s, i) = "f" THEN ParseLiteral(s, i, S_false, JBool(FALSE))
  ELSE IF At(s, i) = "n" THEN ParseLiteral(s, i, S_null, JNull)
  ELSE ParseNumber(s, i)

\* One value, leading white space skipped.
ParseValue(s, i0) ==
  Bind(SkipChars(s, i0, WhiteSpace), LAMBDA i :
    Bind(SkipChars(s, i + 1, WhiteSpace), LAMBDA j : ParseValueAt(s, i, j)))

\* JSON.parse(text): None when it throws a SyntaxError.
JsonParse(text) ==
  Bind(ParseValue(text, 1), LAMBDA r :
    IF r.ok /\ SkipChars(text, r.next, WhiteSpace) > Len(text) THEN Some(r.v) ELSE None)

RECURSIVE NatDigits(_)
NatDigits(n) ==
  IF n < 10 THEN <<<<"0","1","2","3","4","5","6","7","8","9">>[n + 1]>>
  ELSE NatDigits(n \div 10) \o <<<<"0","1","2","3","4","5","6","7","8","9">>[(n % 10) + 1]>>

RECURSIVE JsonStringify(_), StringifyItems(_, _)

\* The items of an array or object, comma separated.
StringifyItems(items, i) ==
  IF i > Len(items) THEN << >>
  ELSE (IF i > 1 THEN <<",">> ELSE << >>) \o JsonStringify(items[i])
       \o StringifyItems(items, i + 1)

\* JSON.stringify(value)
JsonStringify(v) ==
  CASE v.t = "null" -> S_null
    [] v.t = "true" -> S_true
    [] v.t = "false" -> S_false
    [] v.t = "number" -> IF v.n < 0 THEN <<"-">> \o NatDigits(-v.n) ELSE NatDigits(v.n)
    [] v.t = "string" -> <<"\"">> \o v.s \o <<"\"">>
    [] v.t = "member" -> <<"\"">> \o v.s \o <<"\"", ":">> \o JsonStringify(v.items[1])
    [] v.t = "array" -> <<"[">> \o StringifyItems(v.items, 1) \o <<"]">>
    [] v.t = "object" -> <<"{">> \o StringifyItems(v.items, 1) \o <<"}">>

\* JavaScript truthiness of an optional JSON value (`body && ...`).
Truthy(o) ==
  /\ IsSome(o)
  /\ Get(o).t \notin {"null", "false"}
  /\ ~(Get(o).t = "number" /\ Get(o).n = 0)
  /\ ~(Get(o).t = "string" /\ Get(o).s = << >>)

\* JavaScript truthiness of an optional string (`!baseUrl`).
TruthyString(o) == IsSome(o) /\ Get(o) # << >>

(***************************************************************************)
(* String constants of the handlers, and the messages of the errors the    *)
(* runtime throws at the calls the handlers make.                          *)
(***************************************************************************)
S_restPrefix == <<"/","w","p","-","j","s","o","n","/","a","m","e","l","i",
  "a","/","v","1","/">>
S_apiKeyParam == <<"?","a","m","e","l","i","a","A","p","i","K","e","y",
  "=">>
S_settings == <<"s","e","t","t","i","n","g","s">>
S_ajaxPath == <<"/","w","p","-","a","d","m","i","n","/","a","d","m","i","n",
  "-","a","j","a","x",".","p","h","p","?","a","c","t","i","o","n","=","w",
  "p","a","m","e","l","i","a","_","a","p","i","&","c","a","l","l","=">>
S_apiV1 == <<"/","a","p","i","/","v","1">>
S_apiV1Slash == <<"/","a","p","i","/","v","1","/">>
S_entities == <<"/","a","p","i","/","v","1","/","e","n","t","i","t","i","e",
  "s">>
S_applicationJson == <<"a","p","p","l","i","c","a","t","i","o","n","/","j",
  "s","o","n">>
S_fetchFailed == <<"f","e","t","c","h"," ","f","a","i","l","e","d">>
S_htmlOpen == <<"<","h","t","m","l">>
S_bang == <<"<","!">>
M_destructure == <<"C","a","n","n","o","t"," ","d","e","s","t","r","u","c",
  "t","u","r","e"," ","p","r","o","p","e","r","t","y"," ","'","b","a","s",
  "e","U","r","l","'"," ","o","f"," ","'","r","e","q",".","b","o","d","y",
  "'"," ","a","s"," ","i","t"," ","i","s"," ","u","n","d","e","f","i","n",
  "e","d",".">>
M_parseUrl == <<"F","a","i","l","e","d"," ","t","o"," ","p","a","r","s","e",
  " ","U","R","L"," ","f","r","o","m"," ">>
M_enotfound == <<"g","e","t","a","d","d","r","i","n","f","o"," ","E","N",
  "O","T","F","O","U","N","D">>
M_econnrefused == <<"c","o","n","n","e","c","t"," ","E","C","O","N","N","R",
  "E","F","U","S","E","D">>
M_terminated == <<"t","e","r","m","i","n","a","t","e","d">>
M_syntax == <<"U","n","e","x","p","e","c","t","e","d"," ","t","o","k","e",
  "n">>

\* An error object: its message and its code ("" when it has none).
Err(message, code) == [message |-> message, code |-> code]

\* encodeURIComponent, character by character.
EscapedChars == {" ", "/", ":", "=", "&", "?", "#", "<", ">", "\""}
PercentCode(c) ==
  CASE c = " " -> <<"%","2","0">>
    [] c = "/" -> <<"%","2","F">>
    [] c = ":" -> <<"%","3","A">>
    [] c = "=" -> <<"%","3","D">>
    [] c = "&" -> <<"%","2","6">>
    [] c = "?" -> <<"%","3","F">>
    [] c = "#" -> <<"%","2","3">>
    [] c = "<" -> <<"%","3","C">>
    [] c = ">" -> <<"%","3","E">>
    [] c = "\"" -> <<"%","2","2">>

RECURSIVE encodeURIComponent(_)
encodeURIComponent(s) ==
  IF Len(s) = 0 THEN << >>
  ELSE (IF s[1] \in EscapedChars THEN PercentCode(s[1]) ELSE <<s[1]>>)
       \o encodeURIComponent(SubSeq(s, 2, Len(s)))

(***************************************************************************)
(* Responses to the caller.                                                *)
(***************************************************************************)
\* res.setHeader(...), lines 10-16 and 149-155.
CorsHeaders ==
  { <<"Access-Control-Allow-Credentials", "true">>,
    <<"Access-Control-Allow-Origin", "*">>,
    <<"Access-Control-Allow-Methods", "GET,OPTIONS,PATCH,DELETE,POST,PUT">>,
    <<"Access-Control-Allow-Headers",
      "X-CSRF-Token, X-Requested-With, Accept, Accept-Version, Content-Length, Content-MD5, Content-Type, Date, X-Api-Version">> }

\* res.status(status).json(body)
Json(status, body) ==
  [status |-> status, headers |-> CorsHeaders, kind |-> "json", body |-> body]

\* res.status(status).end()
End(status) ==
  [status |-> status, headers |-> CorsHeaders, kind |-> "end", body |-> << >>]

\* The gate without its 405 branch: only the preflight is answered here.
MethodGateOptionsOnly(method) ==
  IF method = "OPTIONS" THEN Some(End(200)) ELSE None

\* Lines 19-27 and 157-164: the reply the method alone decides, if any.
MethodGate(method) ==
  IF method = "OPTIONS" THEN Some(End(200))
  ELSE IF method # "POST" THEN Some(Json(405, [error |-> "Method not allowed"]))
  ELSE None

\* Lines 33 and 169: !baseUrl || !apiKey
MissingFields(b) == ~TruthyString(b.baseUrl) \/ ~TruthyString(b.apiKey)

\* Lines 34-36 and 170-172.
MissingFieldsResponse ==
  Json(400, [error |-> "Missing required fields: baseUrl and apiKey"])

\* Lines 42-44.
InvalidUrlResponse ==
  Json(400, [error |-> "Invalid base URL format. Should be like: https://yoursite.com or https://yoursite.com/wp-json/amelia/v1/"])

\* const { method = 'GET' } = req.body
EffectiveMethod(b) == IF IsSome(b.method) THEN Get(b.method) ELSE "GET"

(***************************************************************************)
(* REST transport, lines 8-100.                                            *)
(***************************************************************************)
\* buildAmeliaUrl, lines 135-141.
buildAmeliaUrl(baseUrl, endpoint, apiKey) ==
  baseUrl \o S_restPrefix \o StripLeadingSlash(endpoint) \o S_apiKeyParam \o apiKey

\* Line 48: buildAmeliaUrl(cleanUrl, endpoint || 'settings', apiKey)
restFullUrl(b) ==
  buildAmeliaUrl(Get(cleanBaseUrl(Get(b.baseUrl))),
                 IF TruthyString(b.call) THEN Get(b.call) ELSE S_settings,
                 Get(b.apiKey))

\* Lines 51-60.
restFetchOptions(b) ==
  [method |-> EffectiveMethod(b),
   headers |-> {[name |-> "Content-Type", value |-> S_applicationJson]},
   body |-> IF Truthy(b.body) /\ EffectiveMethod(b) \in {"POST", "PUT"}
            THEN Some(JsonStringify(Get(b.body))) ELSE None]

\* Lines 83-99: the catch block.
restCatch(error) ==
  IF Includes(error.message, S_fetchFailed) \/ error.code = "ENOTFOUND"
  THEN Json(500, [error |-> "Cannot reach WordPress site",
                  message |-> "The WordPress URL may be incorrect or the site may be down",
                  details |-> error.message])
  ELSE Json(500, [error |-> "Proxy request failed", message |-> error.message])

\* Lines 65-73: the reply to a non-OK upstream response.
restNotOk(status, errorText) ==
  Json(status, [error |-> "WP Amelia API request failed",
                status |-> status,
                message |-> errorText,
                details |-> "Check if your API key is valid and your WordPress site is accessible"])

\* Lines 78-81.
restSuccess(data) == Json(200, [success |-> TRUE, data |-> data])

(***************************************************************************)
(* Ajax transport, lines 147-265.                                          *)
(***************************************************************************)
\* Lines 183-186.
ajaxApiCall(b) ==
  LET apiCall == IF TruthyString(b.call) THEN Get(b.call) ELSE S_entities
  IN IF StartsWith(apiCall, S_apiV1) THEN apiCall
     ELSE S_apiV1Slash \o StripLeadingSlash(apiCall)

RECURSIVE ajaxQueryString(_)
\* Lines 191-195: "&key=value" for every entry, both encoded.
ajaxQueryString(entries) ==
  IF Len(entries) = 0 THEN << >>
  ELSE <<"&">> \o encodeURIComponent(entries[1].key) \o <<"=">>
       \o encodeURIComponent(entries[1].value)
       \o ajaxQueryString(SubSeq(entries, 2, Len(entries)))

\* Lines 176-195.
ajaxFullUrl(b) ==
  ajaxCleanUrl(Get(b.baseUrl)) \o S_ajaxPath \o ajaxApiCall(b)
  \o (IF IsSome(b.queryParams) THEN ajaxQueryString(Get(b.queryParams)) ELSE << >>)

\* Lines 202-212.
ajaxFetchOptions(b) ==
  LET withBody == Truthy(b.body) /\ EffectiveMethod(b) \in {"POST", "PUT", "PATCH"}
  IN [method |-> EffectiveMethod(b),
      headers |-> {[name |-> "Amelia", value |-> Get(b.apiKey)]}
                  \cup (IF withBody
                        THEN {[name |-> "Content-Type", value |-> S_applicationJson]}
                        ELSE {}),
      body |-> IF withBody THEN Some(JsonStringify(Get(b.body))) ELSE None]

\* responseText.substring(0, 300) and responseText.substring(0, 500)
RawHtmlLimit == 300
RawJsonLimit == 500

\* Line 221: empty, blank or "0".
IsEmptyResponse(responseText) ==
  responseText = << >> \/ Trim(responseText) = << >> \/ Trim(responseText) = <<"0">>

\* The HTML test without toLowerCase: "<HTML" is no longer recognized.
IsHtmlResponseCaseSensitive(responseText) ==
  \/ StartsWith(Trim(responseText), S_bang)
  \/ StartsWith(Trim(responseText), S_htmlOpen)

\* Line 231: starts with "<!" or, in any case, with "<html".
IsHtmlResponse(responseText) ==
  \/ StartsWith(Trim(responseText), S_bang)
  \/ StartsWith(ToLowerCase(Trim(responseText)), S_htmlOpen)

\* Lines 220-255: the reply to the upstream response text.
ajaxClassify(status, responseText) ==
  IF IsEmptyResponse(responseText)
  THEN Json(200, [success |-> FALSE,
                  error |-> "Empty response from WordPress",
                  hint |-> "This usually means: invalid API key, API not enabled, or wrong endpoint",
                  rawResponse |-> responseText])
  ELSE IF IsHtmlResponse(responseText)
  THEN Json(200, [success |-> FALSE,
                  error |-> "WordPress returned HTML instead of JSON",
                  hint |-> "Check that Amelia Pro/Elite is installed with API enabled",
                  rawResponse |-> Substring0(responseText, RawHtmlLimit)])
  ELSE IF JsonParse(responseText) = None
  THEN Json(200, [success |-> FALSE,
                  error |-> "Invalid JSON response",
                  rawResponse |-> Substring0(responseText, RawJsonLimit)])
  ELSE Json(200, [success |-> TRUE, data |-> Get(JsonParse(responseText))])

\* Lines 257-264: the catch block.
ajaxCatch(error) ==
  Json(500, [success |-> FALSE, error |-> "Proxy request failed",
             message |-> error.message])

(***************************************************************************)
(* The handlers up to their first await.  The outcome is a response, an    *)
(* outbound request, or an error thrown into the catch block (each         *)
(* optional; exactly one is present).                                      *)
(***************************************************************************)
Responds(response) == [response |-> Some(response), request |-> None, error |-> None]
Throws(error) == [response |-> None, request |-> None, error |-> Some(error)]
Fetches(url, options) ==
  [response |-> None, error |-> None,
   request |-> Some([url |-> url, method |-> options.method,
                     headers |-> options.headers, body |-> options.body])]

\* fetch(url, options) rejects with a TypeError before any network activity
\* when the URL does not parse.
FetchOrThrow(url, options) ==
  IF IsValidURL(url) THEN Fetches(url, options)
  ELSE Throws(Err(M_parseUrl \o url, ""))

\* Lines 19-62.
restEntry(r) ==
  IF IsSome(MethodGate(r.method)) THEN Responds(Get(MethodGate(r.method)))
  ELSE IF ~IsSome(r.body) THEN Throws(Err(M_destructure, ""))
  ELSE IF MissingFields(Get(r.body)) THEN Responds(MissingFieldsResponse)
  ELSE IF cleanBaseUrl(Get(Get(r.body).baseUrl)) = None THEN Responds(InvalidUrlResponse)
  ELSE FetchOrThrow(restFullUrl(Get(r.body)), restFetchOptions(Get(r.body)))

\* Lines 157-214.
ajaxEntry(r) ==
  IF IsSome(MethodGate(r.method)) THEN Responds(Get(MethodGate(r.method)))
  ELSE IF ~IsSome(r.body) THEN Throws(Err(M_destructure, ""))
  ELSE IF MissingFields(Get(r.body)) THEN Responds(MissingFieldsResponse)
  ELSE FetchOrThrow(ajaxFullUrl(Get(r.body)), ajaxFetchOptions(Get(r.body)))

Entry(t, r) == IF t = "rest" THEN restEntry(r) ELSE ajaxEntry(r)
Catch(t, error) == IF t = "rest" THEN restCatch(error) ELSE ajaxCatch(error)

\* response.ok
IsOk(status) == status >= 200 /\ status <= 299

(***************************************************************************)
(* Inputs: inbound requests and upstream outcomes.                         *)
(***************************************************************************)
\* How far past a truncation limit the long upstream texts go.
MaxOver == 2

Transports == {"rest", "ajax"}
InboundMethods == {"OPTIONS", "GET", "DELETE", "POST"}

U_bare == <<"a",".","c","o">>
U_plugin == S_https \o U_bare \o S_restPrefix
U_spaceHost == <<"a"," ","b">>
U_blank == <<" ">>
U_spaceSlash == U_bare \o <<" ","/">>

BaseUrls ==
  {None, Some(<< >>), Some(U_bare), Some(U_plugin), Some(U_spaceHost),
   Some(U_blank), Some(U_spaceSlash)}
ApiKeys == {None, Some(<< >>), Some(<<"K","9">>)}
Calls == {None, Some(<<"/","u","s","e","r","s">>)}
CallMethods == {None, Some("POST"), Some("PATCH")}
T_idObj == <<"{","\"","i","d","\"",":","1","}">>
CallBodies == {None, Some(JNum(0)), Some(Get(JsonParse(T_idObj)))}
QueryParams == {None, Some(<<[key |-> <<"p"," ","g">>, value |-> <<"a","/","b">>]>>)}

RequestBodies ==
  {None} \cup
  { Some([baseUrl |-> u, apiKey |-> k, call |-> c, method |-> m, body |-> b,
          queryParams |-> q]) :
      u \in BaseUrls, k \in ApiKeys, c \in Calls, m \in CallMethods,
      b \in CallBodies, q \in QueryParams }

Requests == { [method |-> m, body |-> b] : m \in InboundMethods, b \in RequestBodies }

PadTo(prefix, n) == prefix \o Repeat("x", n - Len(prefix))
NearLimit(limit) == limit..(limit + MaxOver - 1)

T_doctype == <<"<","!","D","O","C","T","Y","P","E"," ","h","t","m","l",">">>
T_HtMl == <<" ","<","H","t","M","l",">">>
T_notJson == <<"n","o","t"," ","j","s","o","n">>

ShortTexts ==
  { << >>, <<" ">>, <<"\n">>, <<"0">>, <<" ","0","\n">>, <<"0","0">>, <<"1">>,
    T_idObj, <<" ">> \o T_idObj \o <<"\n">>, T_notJson, T_doctype, T_HtMl,
    <<"<","h","t","m",">">>, <<"\"","<","h","t","m","l","\"">>,
    <<"[","1",","," ","n","u","l","l","]">> }
HtmlTexts ==
  { PadTo(T_doctype, n) : n \in NearLimit(RawHtmlLimit) }
  \cup { PadTo(T_HtMl, RawJsonLimit + MaxOver) }
NonJsonTexts ==
  { PadTo(T_notJson, n) : n \in NearLimit(RawJsonLimit) }
  \cup { PadTo(<<" ","{">>, RawJsonLimit + MaxOver) }
LongJsonTexts == { <<"\"">> \o Repeat("x", RawJsonLimit + MaxOver) \o <<"\"">> }

UpstreamTexts == ShortTexts \cup HtmlTexts \cup NonJsonTexts \cup LongJsonTexts
UpstreamStatuses == {200, 404}

\* What fetch rejects with when the network call fails: the platform's
\* TypeError "fetch failed", or a system error carrying its code.
FetchErrors ==
  { Err(S_fetchFailed, ""), Err(M_enotfound, "ENOTFOUND"),
    Err(M_econnrefused, "ECONNREFUSED") }

\* What reading the response body rejects with when the connection breaks.
BodyErrors == { Err(M_terminated, "") }

NormIdle == [stage |-> 0, input |-> << >>, once |-> None, twice |-> None]

(***************************************************************************)
(* The handler as a state machine: one action per stretch between awaits.  *)
(***************************************************************************)
Init ==
  /\ transport \in Transports
  /\ pc = "idle"
  /\ req = None
  /\ fetches = << >>
  /\ upstream = None
  /\ caught = None
  /\ responses = << >>
  /\ norm = NormIdle

\* The catch block runs with `error`: one response, and the handler returns.
CatchRuns(error) ==
  /\ caught' = Some(error)
  /\ responses' = Append(responses, Catch(transport, error))
  /\ pc' = "done"

\* handler(req, res) from its start to `await fetch(...)` or to its return.
Handle(r) ==
  /\ pc = "idle"
  /\ req' = Some(r)
  /\ LET o == Entry(transport, r)
     IN /\ fetches' = fetches \o o.request
        /\ caught' = o.error
        /\ responses' = responses \o
             (IF IsSome(o.error) THEN <<Catch(transport, Get(o.error))>> ELSE o.response)
        /\ pc' = IF IsSome(o.request) THEN "awaitFetch" ELSE "done"
  /\ UNCHANGED <<transport, upstream, norm>>

\* `await fetch(...)` resolves with the upstream response (lines 62, 214).
FetchResolves(status, text) ==
  /\ pc = "awaitFetch"
  /\ upstream' = Some([status |-> status, text |-> text])
  /\ pc' = IF transport = "rest" /\ IsOk(status) THEN "awaitJson" ELSE "awaitText"
  /\ UNCHANGED <<transport, req, fetches, caught, responses, norm>>

\* A handler that calls fetch a second time after the first call failed.
FetchRejectsRetry(error) ==
  /\ pc = "awaitFetch"
  /\ IF Len(fetches) < 2
     THEN /\ fetches' = Append(fetches, fetches[1])
          /\ UNCHANGED <<pc, caught, responses>>
     ELSE CatchRuns(error) /\ UNCHANGED fetches
  /\ UNCHANGED <<transport, req, upstream, norm>>

\* `await fetch(...)` rejects: the catch block replies.
FetchRejects(error) ==
  /\ pc = "awaitFetch"
  /\ CatchRuns(error)
  /\ UNCHANGED <<transport, req, fetches, upstream, norm>>

\* `await response.text()` resolves (lines 66-72, 215-255).
TextResolves ==
  /\ pc = "awaitText"
  /\ responses' = Append(responses,
       IF transport = "rest"
       THEN restNotOk(Get(upstream).status, Get(upstream).text)
       ELSE ajaxClassify(Get(upstream).status, Get(upstream).text))
  /\ pc' = "done"
  /\ UNCHANGED <<transport, req, fetches, upstream, caught, norm>>

\* `await response.json()` settles (lines 76-81): the parsed body, or a
\* SyntaxError into the catch block.
JsonResolves ==
  /\ pc = "awaitJson"
  /\ IF JsonParse(Get(upstream).text) = None
     THEN CatchRuns(Err(M_syntax, ""))
     ELSE /\ responses' = Append(responses, restSuccess(Get(JsonParse(Get(upstream).text))))
          /\ pc' = "done"
          /\ UNCHANGED caught
  /\ UNCHANGED <<transport, req, fetches, upstream, norm>>

\* Reading the body rejects: the catch block replies.
BodyRejects(error) ==
  /\ pc \in {"awaitText", "awaitJson"}
  /\ CatchRuns(error)
  /\ UNCHANGED <<transport, req, fetches, upstream, norm>>

Next ==
  \/ \E r \in Requests : Handle(r)
  \/ \E status \in UpstreamStatuses, text \in UpstreamTexts : FetchResolves(status, text)
  \/ \E error \in FetchErrors : FetchRejects(error)
  \/ TextResolves
  \/ JsonResolves
  \/ \E error \in BodyErrors : BodyRejects(error)

Spec == Init /\ [][Next]_vars

\* The same handler over fewer inputs, for the properties of its control
\* flow, with fairness: the outbound call and the body read each eventually
\* return or throw, and the handler's continuations run once they are due.
LiveRequests ==
  { r \in Requests :
      r.body = None \/ (Get(r.body).call = None /\ Get(r.body).queryParams = None) }
LiveTexts == {<< >>, <<"0">>, T_idObj, T_notJson, T_doctype}

FetchSettles ==
  \/ \E status \in UpstreamStatuses, text \in LiveTexts : FetchResolves(status, text)
  \/ \E error \in FetchErrors : FetchRejects(error)

BodySettles ==
  \/ TextResolves
  \/ JsonResolves
  \/ \E error \in BodyErrors : BodyRejects(error)

LiveNext ==
  \/ \E r \in LiveRequests : Handle(r)
  \/ FetchSettles
  \/ BodySettles

LiveSpec ==
  /\ Init
  /\ [][LiveNext]_vars
  /\ WF_vars(FetchSettles)
  /\ WF_vars(BodySettles)

(***************************************************************************)
(* Base URL normalization on its own: applied once, then to its result.    *)
(***************************************************************************)
NormLeads == {<< >>, <<" ">>}
NormSchemes == {<< >>, S_http, S_https}
NormHosts == {<< >>, U_bare, U_spaceHost}
NormPaths == {<< >>, <<"/","x">>, SubSeq(S_restPrefix, 1, Len(S_restPrefix) - 1)}
NormTrails == {<< >>, <<"/">>, <<"/","/">>, <<" ","/">>, <<"/"," ">>}
NormInputs ==
  { l \o sc \o h \o pa \o t :
      l \in NormLeads, sc \in NormSchemes, h \in NormHosts, pa \in NormPaths,
      t \in NormTrails }

\* The normalization of the deployed handler: None when it rejects.
Normalize(t, url) == IF t = "rest" THEN cleanBaseUrl(url) ELSE Some(ajaxCleanUrl(url))

NormInit ==
  /\ transport \in Transports
  /\ pc = "idle" /\ req = None /\ fetches = << >> /\ upstream = None
  /\ caught = None /\ responses = << >>
  /\ norm \in { [stage |-> 0, input |-> u, once |-> None, twice |-> None] : u \in NormInputs }

NormalizeOnce ==
  /\ norm.stage = 0
  /\ norm' = [norm EXCEPT !.stage = 1, !.once = Normalize(transport, norm.input)]
  /\ UNCHANGED <<transport, pc, req, fetches, upstream, caught, responses>>

NormalizeAgain ==
  /\ norm.stage = 1
  /\ IsSome(norm.once)
  /\ norm' = [norm EXCEPT !.stage = 2, !.twice = Normalize(transport, Get(norm.once))]
  /\ UNCHANGED <<transport, pc, req, fetches, upstream, caught, responses>>

NormNext == NormalizeOnce \/ NormalizeAgain

NormSpec == NormInit /\ [][NormNext]_vars

(***************************************************************************)
(* Properties.                                                             *)
(***************************************************************************)
Arrived == pc # "idle"
Method == Get(req).method
HasBody == IsSome(Get(req).body)
Fields == Get(Get(req).body)
Reply == responses[1]
Absent(o) == o = None \/ o = Some(<< >>)
IsPrefix(p, s) == Len(p) <= Len(s) /\ p = SubSeq(s, 1, Len(p))
HasField(r, f) == r.kind = "json" /\ f \in DOMAIN r.body

\* C1: a POST whose body lacks baseUrl or apiKey (absent or empty; a POST
\* that carries no body lacks both) is answered 400 with the error naming
\* baseUrl and apiKey, and no outbound request is ever issued for it.
C1_MissingFieldsRejected ==
  (Arrived /\ Method = "POST"
     /\ (~HasBody \/ Absent(Fields.baseUrl) \/ Absent(Fields.apiKey)))
  => /\ pc = "done"
     /\ Len(responses) = 1
     /\ Reply.status = 400
     /\ Reply.body = [error |-> "Missing required fields: baseUrl and apiKey"]
     /\ fetches = << >>

\* The part of C1 the handlers do satisfy: when req.body is an object that
\* lacks baseUrl or apiKey, the reply is that 400 and nothing is fetched.
C1_HoldsForObjectBodies ==
  (Arrived /\ Method = "POST" /\ HasBody
     /\ (Absent(Fields.baseUrl) \/ Absent(Fields.apiKey)))
  => /\ pc = "done"
     /\ Len(responses) = 1
     /\ Reply.status = 400
     /\ Reply.body = [error |-> "Missing required fields: baseUrl and apiKey"]
     /\ fetches = << >>

\* C2: in the ajax handler, an upstream body that parses as JSON (not empty,
\* "0" or HTML) with a non-2xx status is answered with the upstream's status,
\* the request-failed error and the parsed body under data; success:true
\* with status 200 is returned only for a 2xx upstream status.
C2_UpstreamStatusPropagated ==
  (transport = "ajax" /\ pc = "done" /\ IsSome(upstream) /\ caught = None)
  => LET status == Get(upstream).status
         text == Get(upstream).text
         parses == /\ Trim(text) \notin {<< >>, <<"0">>}
                   /\ ~StartsWith(Trim(text), S_bang)
                   /\ ~StartsWith(ToLowerCase(Trim(text)), S_htmlOpen)
                   /\ JsonParse(text) # None
     IN /\ (parses /\ ~IsOk(status))
             => /\ Reply.status = status
                /\ HasField(Reply, "error")
                /\ HasField(Reply, "data")
                /\ Reply.body.data = Get(JsonParse(text))
        /\ (HasField(Reply, "success") /\ Reply.body.success /\ Reply.status = 200)
             => IsOk(status)

\* C3: the ajax handler classifies the upstream text in the order (1) empty,
\* blank or "0" after trimming, (2) trimmed text starting with "<!" or,
\* case-insensitively, "<html", (3) text that is not JSON; the first class
\* that matches decides, and each yields status 200, success:false and a
\* rawResponse that is the whole text (1), at most its first 300 characters
\* (2), at most its first 500 characters (3), whatever the upstream status.
C3_ClassificationOrder ==
  (transport = "ajax" /\ pc = "done" /\ IsSome(upstream) /\ caught = None)
  => LET text == Get(upstream).text
         empty == Trim(text) \in {<< >>, <<"0">>}
         html == \/ StartsWith(Trim(text), S_bang)
                 \/ StartsWith(ToLowerCase(Trim(text)), S_htmlOpen)
         notJson == JsonParse(text) = None
         failed == /\ Reply.status = 200
                   /\ HasField(Reply, "success") /\ Reply.body.success = FALSE
                   /\ HasField(Reply, "rawResponse")
     IN /\ empty
             => /\ failed
                /\ Reply.body.error = "Empty response from WordPress"
                /\ Reply.body.rawResponse = text
        /\ (~empty /\ html)
             => /\ failed
                /\ Reply.body.error = "WordPress returned HTML instead of JSON"
                /\ IsPrefix(Reply.body.rawResponse, text)
                /\ Len(Reply.body.rawResponse) = Min(300, Len(text))
        /\ (~empty /\ ~html /\ notJson)
             => /\ failed
                /\ Reply.body.error = "Invalid JSON response"
                /\ IsPrefix(Reply.body.rawResponse, text)
                /\ Len(Reply.body.rawResponse) = Min(500, Len(text))

\* C3 witness: an HTML page longer than 500 characters, which is not JSON
\* either, came with status 404 and was reported as HTML, cut to 300.
C3_Witness ==
  /\ transport = "ajax" /\ pc = "done" /\ caught = None
  /\ upstream = Some([status |-> 404, text |-> PadTo(T_HtMl, RawJsonLimit + MaxOver)])
  /\ Reply.body.error = "WordPress returned HTML instead of JSON"
  /\ Len(Reply.body.rawResponse) = 300

\* C4: when the outbound call fails at transport level (DNS failure,
\* connection refused, "fetch failed") the reply is 500 with the error
\* 'Cannot reach WordPress site', not the generic 'Proxy request failed'.
C4_TransportFailureReported ==
  (pc = "done" /\ Len(fetches) = 1 /\ upstream = None)
  => /\ Reply.status = 500
     /\ HasField(Reply, "error")
     /\ Reply.body.error = "Cannot reach WordPress site"

\* C5: a POST with non-empty baseUrl and apiKey whose base URL, trimmed,
\* stripped of trailing slashes and given https:// when it has no scheme,
\* is not a well-formed URL is answered 400 with the format hint, and no
\* outbound request is issued.
C5_InvalidBaseUrlRejected ==
  (Arrived /\ Method = "POST" /\ HasBody
     /\ ~Absent(Fields.baseUrl) /\ ~Absent(Fields.apiKey)
     /\ ~IsValidURL(AddScheme(Get(Fields.baseUrl))))
  => /\ pc = "done"
     /\ Reply.status = 400
     /\ Reply.body = [error |-> "Invalid base URL format. Should be like: https://yoursite.com or https://yoursite.com/wp-json/amelia/v1/"]
     /\ fetches = << >>

\* C6: base URL normalization is idempotent: normalizing the result of a
\* normalization that accepted its input gives that result again.
C6_NormalizeIdempotent ==
  norm.stage = 2 => norm.twice = norm.once

\* C7: a request whose method is not POST is answered by its method alone,
\* whatever its body: OPTIONS with status 200, the fixed CORS headers and no
\* body, any other method with 405 'Method not allowed'; no outbound request
\* is issued.
C7_MethodGateFirst ==
  (Arrived /\ Method # "POST")
  => /\ pc = "done"
     /\ fetches = << >>
     /\ Len(responses) = 1
     /\ <<"Access-Control-Allow-Origin", "*">> \in Reply.headers
     /\ <<"Access-Control-Allow-Methods", "GET,OPTIONS,PATCH,DELETE,POST,PUT">> \in Reply.headers
     /\ <<"Access-Control-Allow-Credentials", "true">> \in Reply.headers
     /\ Cardinality(Reply.headers) = 4
     /\ IF Method = "OPTIONS"
        THEN Reply.status = 200 /\ Reply.kind = "end" /\ Reply.body = << >>
        ELSE /\ Reply.status = 405 /\ Reply.kind = "json"
             /\ Reply.body = [error |-> "Method not allowed"]

\* C7 witness: a GET carrying a complete, valid body was answered 405.
C7_Witness ==
  /\ pc = "done" /\ Method = "GET" /\ HasBody
  /\ Fields.baseUrl = Some(U_bare) /\ Fields.apiKey = Some(<<"K","9">>)
  /\ Reply.status = 405

\* C8: for every inbound request the handler issues at most one outbound
\* request and sends exactly one response: nothing is retried, no second
\* response follows the first, and, the outbound call returning or throwing,
\* the request's response is eventually sent.
C8_OneFetchOneResponse ==
  /\ [](/\ Len(fetches) <= 1
        /\ Len(responses) <= 1
        /\ (pc = "done" <=> Len(responses) = 1))
  /\ [][Len(fetches) = 1 => fetches' = fetches]_vars
  /\ [][Len(responses) = 1 => responses' = responses]_vars
  /\ (Arrived ~> Len(responses) = 1)

\* C8 witness: the outbound call was issued and failed, and the one response
\* was sent without a second call.
C8_Witness ==
  /\ pc = "done" /\ Len(fetches) = 1 /\ upstream = None /\ caught # None
  /\ Len(responses) = 1

\* C9: every response other than the OPTIONS preflight reply has a JSON body
\* with a boolean success field.
C9_EnvelopeHasSuccess ==
  (pc = "done" /\ Method # "OPTIONS")
  => /\ Reply.kind = "json"
     /\ HasField(Reply, "success")
     /\ Reply.body.success \in BOOLEAN

\* C10: the outbound request uses the caller's method (GET when none is
\* given) and carries a JSON body and a Content-Type: application/json
\* header exactly when the caller gave a truthy body and the method is POST,
\* PUT or PATCH; in the ajax transport the API key is the 'Amelia' header
\* of every outbound request and is not in the URL.
C10_OutboundRequestShape ==
  Len(fetches) = 1
  => LET f == fetches[1]
         method == IF Fields.method = None THEN "GET" ELSE Get(Fields.method)
         wanted == Truthy(Fields.body) /\ method \in {"POST", "PUT", "PATCH"}
         typed == [name |-> "Content-Type", value |-> S_applicationJson] \in f.headers
     IN /\ f.method = method
        /\ IsSome(f.body) <=> wanted
        /\ typed <=> wanted
        /\ IsSome(f.body) => JsonParse(Get(f.body)) = Fields.body
        /\ transport = "ajax"
             => /\ [name |-> "Amelia", value |-> Get(Fields.apiKey)] \in f.headers
                /\ ~Includes(f.url, Get(Fields.apiKey))
====
